---- MODULE Spec2Model ----
(***************************************************************************)
(* Model of the Aurora compiler front end (src/compiler.py): the Lexer     *)
(* object (source, position, line, column) with its methods, and the       *)
(* Parser object (tokens, position) with its recursive-descent methods.    *)
(* Every method is one action; a Python exception is recorded in the       *)
(* error variable under the name of its class, the object keeping the      *)
(* field values it had when the exception was raised.                      *)
(***************************************************************************)
EXTENDS Integers, Sequences, FiniteSets, TLC

VARIABLES source, lexPosition, line, column, lexOp, lexErr, lexRet,
          tokens, position, op, err, result

lexVars == <<source, lexPosition, line, column, lexOp, lexErr, lexRet>>
parVars == <<tokens, position, op, err, result>>
vars == <<source, lexPosition, line, column, lexOp, lexErr, lexRet,
          tokens, position, op, err, result>>

(* ---------------- bounds ---------------- *)
MaxSrc == 4

(* ---------------- token types ---------------- *)
IDENTIFIER == "IDENTIFIER"
KEYWORD == "KEYWORD"
SYMBOL == "SYMBOL"
NUMBER == "NUMBER"
STRING_ == "STRING"
EOF == "EOF"

TokenType == {IDENTIFIER, KEYWORD, SYMBOL, NUMBER, STRING_, EOF}

KEYWORDS == {"actor", "supervisor", "func", "let", "var", "on", "spawn",
             "log", "restart", "message", "return"}

None == "<None>"

(* Token(type_, value, line, column) *)
Token(t, v, l, c) == [type |-> t, value |-> v, line |-> l, column |-> c]

NoToken == Token(None, None, 0, 0)

(* ======================= Lexer ======================= *)

Quote == "\""
Newline == "\n"

(* the characters a source text is drawn from: one or more of each class *)
(* the lexer tells apart                                                 *)
Chars == {" ", Newline, "a", "1", Quote, "-", ">", "{"}

IsSpace(ch) == ch \in {" ", Newline, "\t"}
IsAlpha(ch) == ch \in {"a"}
IsDigit(ch) == ch \in {"1"}

SeqsUpTo(S, n) == UNION {[1..k -> S] : k \in 0..n}

Sources == SeqsUpTo(Chars, MaxSrc)

(* Lexer.next_char: None past the end, else source[position] (0-based) *)
next_char(src, p) == IF p >= Len(src) THEN None ELSE src[p + 1]

(* The state of a Lexer object together with the outcome of a call. *)
LexState(p, l, c, e, r) == [position |-> p, line |-> l, column |-> c, err |-> e, ret |-> r]

(* what a call handed back: None, a character, a Token, a list of Tokens, *)
(* or nothing because it raised                                          *)
RetNone == [kind |-> "None", ch |-> None, tok |-> NoToken, toks |-> <<>>]
RetChar(ch) == [kind |-> "Char", ch |-> ch, tok |-> NoToken, toks |-> <<>>]
RetToken(t) == [kind |-> "Token", ch |-> None, tok |-> t, toks |-> <<>>]
RetRaised == [kind |-> "Raised", ch |-> None, tok |-> NoToken, toks |-> <<>>]

(* Lexer.advance without the column reset on a newline *)
advanceNoReset(src, p, l, c) ==
    IF p >= Len(src)
    THEN LexState(p, l, c, "IndexError", RetRaised)
    ELSE IF src[p + 1] = Newline
         THEN LexState(p + 1, l + 1, c + 1, "", RetChar(src[p + 1]))
         ELSE LexState(p + 1, l, c + 1, "", RetChar(src[p + 1]))

(* Lexer.advance *)
advance(src, p, l, c) ==
    IF p >= Len(src)
    THEN LexState(p, l, c, "IndexError", RetRaised)
    ELSE IF src[p + 1] = Newline
         THEN LexState(p + 1, l + 1, 1, "", RetChar(src[p + 1]))
         ELSE LexState(p + 1, l, c + 1, "", RetChar(src[p + 1]))

(* Lexer.tokenize_symbol without the look-ahead for "->" *)
tokenize_symbolNoArrow(src, p, l, c) ==
    LET a == advance(src, p, l, c) IN
    IF a.err # "" THEN a
    ELSE LexState(a.position, a.line, a.column, "", RetToken(Token(SYMBOL, a.ret.ch, l, c)))

(* Lexer.tokenize_symbol *)
tokenize_symbol(src, p, l, c) ==
    LET a == advance(src, p, l, c) IN
    IF a.err # "" THEN a
    ELSE IF a.ret.ch = "-" /\ next_char(src, a.position) = ">"
         THEN LET b == advance(src, a.position, a.line, a.column) IN
              LexState(b.position, b.line, b.column, "", RetToken(Token(SYMBOL, "->", l, c)))
         ELSE LexState(a.position, a.line, a.column, "", RetToken(Token(SYMBOL, a.ret.ch, l, c)))

(* Lexer.tokenize: the while loop, from the lexer's current cursor.       *)
(* tokenize_identifier and tokenize_number are not attributes of Lexer,   *)
(* string_val is a local that is never bound, and the loop falls off the  *)
(* end of the function without a return statement.                        *)
RECURSIVE tokenize(_, _, _, _)
tokenize(src, p, l, c) ==
    LET ch == next_char(src, p) IN
    IF ch = None THEN LexState(p, l, c, "", RetNone)
    ELSE IF IsSpace(ch)
         THEN LET a == advance(src, p, l, c) IN tokenize(src, a.position, a.line, a.column)
    ELSE IF IsAlpha(ch) \/ ch = "_"
         THEN LexState(p, l, c, "AttributeError", RetRaised)
    ELSE IF IsDigit(ch)
         THEN LexState(p, l, c, "AttributeError", RetRaised)
    ELSE IF next_char(src, p) # None /\ next_char(src, p) # Quote
         THEN LexState(p, l, c, "UnboundLocalError", RetRaised)
    ELSE IF next_char(src, p) = Quote
         THEN LET a == advance(src, p, l, c) IN
              LexState(a.position, a.line, a.column, "UnboundLocalError", RetRaised)
    ELSE LexState(p, l, c, "UnboundLocalError", RetRaised)

(* ---- the Lexer object and its methods as actions ---- *)

LexerApply(name, s) ==
    /\ lexPosition' = s.position
    /\ line' = s.line
    /\ column' = s.column
    /\ lexErr' = s.err
    /\ lexRet' = s.ret
    /\ lexOp' = name
    /\ UNCHANGED <<source>>
    /\ UNCHANGED parVars

DoAdvance == LexerApply("advance", advance(source, lexPosition, line, column))

DoTokenizeSymbol == LexerApply("tokenize_symbol", tokenize_symbol(source, lexPosition, line, column))

DoTokenize == LexerApply("tokenize", tokenize(source, lexPosition, line, column))

ParserIdle ==
    /\ tokens = <<>>
    /\ position = 0
    /\ op = [name |-> "init", expected_type |-> None, expected_value |-> None]
    /\ err = ""
    /\ result = None

(* Lexer.__init__ *)
InitLexer ==
    /\ source \in Sources
    /\ lexPosition = 0
    /\ line = 1
    /\ column = 1
    /\ lexOp = "init"
    /\ lexErr = ""
    /\ lexRet = RetNone
    /\ ParserIdle

NextLexer == DoAdvance \/ DoTokenizeSymbol \/ DoTokenize

SpecLexer == InitLexer /\ [][NextLexer]_vars

(* ---------------- lexer properties ---------------- *)

(* number of newline characters among the first p characters of src *)
RECURSIVE NewlinesIn(_, _)
NewlinesIn(src, p) ==
    IF p = 0 THEN 0
    ELSE NewlinesIn(src, p - 1) + (IF src[p] = Newline THEN 1 ELSE 0)

(* number of characters after the last newline among the first p characters *)
RECURSIVE SinceNewline(_, _)
SinceNewline(src, p) ==
    IF p = 0 THEN 0
    ELSE IF src[p] = Newline THEN 0
    ELSE SinceNewline(src, p - 1) + 1

LineOf(src, p) == 1 + NewlinesIn(src, p)
ColumnOf(src, p) == 1 + SinceNewline(src, p)

WidthOf(tok) == IF tok.value = "->" THEN 2 ELSE 1

EndsWithSingleEOF(toks) ==
    /\ Len(toks) >= 1
    /\ toks[Len(toks)].type = EOF
    /\ \A i \in 1..(Len(toks) - 1) : toks[i].type # EOF

(* C5: tokenize is total: on every source it returns a token list whose *)
(* last element is the only EndOfInput token.                            *)
C5_TokenizeTotal ==
    lexOp = "tokenize" =>
        /\ lexErr = ""
        /\ lexRet.kind = "Tokens"
        /\ EndsWithSingleEOF(lexRet.toks)

(* an opening quote is the current character and no quote follows it *)
UnterminatedStringAt(src, p) ==
    /\ next_char(src, p) = Quote
    /\ \A i \in (p + 2)..Len(src) : src[i] # Quote

(* C6: tokenizing from an opening quote that is never closed fails with *)
(* UnterminatedString and hands back no String token.                   *)
C6_UnterminatedString ==
    [][(lexOp' = "tokenize" /\ UnterminatedStringAt(source, lexPosition)) =>
          (lexErr' = "UnterminatedString" /\ lexRet'.kind = "Raised")]_vars

(* C7: tokenize_symbol on "-" followed by ">" yields one Symbol "->"     *)
(* placed at the "-" and moves the cursor by two; on any other character *)
(* (a lone "-" included) it yields that character as a Symbol and moves  *)
(* the cursor by one.                                                    *)
C7_LongestMatchArrow ==
    [][(lexOp' = "tokenize_symbol" /\ lexPosition < Len(source)) =>
          IF source[lexPosition + 1] = "-" /\ next_char(source, lexPosition + 1) = ">"
          THEN /\ lexRet' = RetToken(Token(SYMBOL, "->", line, column))
               /\ lexPosition' = lexPosition + 2
          ELSE /\ lexRet' = RetToken(Token(SYMBOL, source[lexPosition + 1], line, column))
               /\ lexPosition' = lexPosition + 1]_vars

C7_Witness ==
    /\ lexOp = "tokenize_symbol"
    /\ lexRet.kind = "Token"
    /\ lexRet.tok.value = "->"
    /\ lexRet.tok.column = 2
    /\ lexPosition = 3

(* C10: line is 1 plus the newlines consumed, column is 1 plus the        *)
(* characters consumed since the last newline, and a token carries the    *)
(* line and column of its first character.                                *)
C10_PositionInvariant ==
    /\ line = LineOf(source, lexPosition)
    /\ column = ColumnOf(source, lexPosition)
    /\ lexRet.kind = "Token" =>
          /\ lexRet.tok.line = LineOf(source, lexPosition - WidthOf(lexRet.tok))
          /\ lexRet.tok.column = ColumnOf(source, lexPosition - WidthOf(lexRet.tok))

C10_Witness ==
    /\ lexRet.kind = "Token"
    /\ lexRet.tok.line = 2
    /\ lexRet.tok.column = 2
    /\ line = 2
    /\ column = 3


(* ======================= Parser ======================= *)

(* AST nodes *)
Actor(name, body) == [node |-> "Actor", name |-> name, body |-> body]
Supervisor(name, body) == [node |-> "Supervisor", name |-> name, body |-> body]
Function(name, params, return_type, body) ==
    [node |-> "Function", name |-> name, params |-> params,
     return_type |-> return_type, body |-> body]
EventHandler(event, params, body) ==
    [node |-> "EventHandler", name |-> event, params |-> params, body |-> body]
Main(body) == [node |-> "Main", name |-> None, body |-> body]

(* The outcome of a Parser call: the exception raised ("" when it     *)
(* returned), the cursor it leaves in self.position, the value returned. *)
Outcome(e, p, v) == [err |-> e, pos |-> p, val |-> v]

(* `if expected_type` / `if expected_value`: None and "" are falsy *)
Truthy(x) == x # None /\ x # ""

(* Parser.consume that moves the cursor even when the expectation fails *)
consumeAlwaysAdvance(toks, p, expected_type, expected_value) ==
    IF p >= Len(toks) THEN Outcome("IndexError", p, None)
    ELSE IF Truthy(expected_type) /\ toks[p + 1].type # expected_type
         THEN Outcome("UnexpectedToken", p + 1, None)
    ELSE IF Truthy(expected_value) /\ toks[p + 1].value # expected_value
         THEN Outcome("UnexpectedToken", p + 1, None)
    ELSE Outcome("", p + 1, toks[p + 1])

(* Parser.consume; self.current() raises IndexError past the end of the   *)
(* list, the two `raise Exception` are the parser's UnexpectedToken error *)
consume(toks, p, expected_type, expected_value) ==
    IF p >= Len(toks) THEN Outcome("IndexError", p, None)
    ELSE IF Truthy(expected_type) /\ toks[p + 1].type # expected_type
         THEN Outcome("UnexpectedToken", p, None)
    ELSE IF Truthy(expected_value) /\ toks[p + 1].value # expected_value
         THEN Outcome("UnexpectedToken", p, None)
    ELSE Outcome("", p + 1, toks[p + 1])

(* One statement of a straight-line method body: a self.consume(type,  *)
(* value), a self.parse_parameters(), or a body-collecting while loop.  *)
Expect(t, v) == [kind |-> "consume", type |-> t, value |-> v]
Parameters == [kind |-> "parse_parameters", type |-> None, value |-> None]
Body == [kind |-> "collect_body", type |-> None, value |-> None]

(* Parser.parse_parameters: one round of the while loop has consumed the *)
(* token c.val; a "," that follows it is consumed and dropped            *)
RECURSIVE parse_parameters_loop(_, _, _)
parse_parameters_next(toks, c, params) ==
    IF c.pos >= Len(toks) THEN Outcome("IndexError", c.pos, None)
    ELSE IF toks[c.pos + 1].type = SYMBOL /\ toks[c.pos + 1].value = ","
         THEN parse_parameters_loop(toks, c.pos + 1, Append(params, c.val))
         ELSE parse_parameters_loop(toks, c.pos, Append(params, c.val))

parse_parameters_loop(toks, p, params) ==
    IF p >= Len(toks) THEN Outcome("IndexError", p, None)
    ELSE IF toks[p + 1].type = SYMBOL /\ toks[p + 1].value = ")"
         THEN Outcome("", p, params)
    ELSE parse_parameters_next(toks, consume(toks, p, None, None), params)

(* Parser.parse_parameters *)
parse_parameters(toks, p) == parse_parameters_loop(toks, p, <<>>)

(* `while self.current().value != "}": body.append(self.consume())` *)
RECURSIVE collect_body(_, _, _)
collect_body(toks, p, body) ==
    IF p >= Len(toks) THEN Outcome("IndexError", p, None)
    ELSE IF toks[p + 1].value = "}" THEN Outcome("", p, body)
    ELSE collect_body(toks, p + 1, Append(body, toks[p + 1]))

statement(toks, p, s) ==
    IF s.kind = "consume" THEN consume(toks, p, s.type, s.value)
    ELSE IF s.kind = "parse_parameters" THEN parse_parameters(toks, p)
    ELSE collect_body(toks, p, <<>>)

(* the statements of a method body run in order until one raises; val is *)
(* the list of the values they returned                                  *)
RECURSIVE statements(_, _, _, _)
statements_next(toks, o, rest, got) ==
    IF o.err # "" THEN Outcome(o.err, o.pos, None)
    ELSE statements(toks, o.pos, rest, Append(got, o.val))

statements(toks, p, todo, got) ==
    IF todo = <<>> THEN Outcome("", p, got)
    ELSE statements_next(toks, statement(toks, p, Head(todo)), Tail(todo), got)

function_node(o) ==
    IF o.err # "" THEN o
    ELSE Outcome("", o.pos, Function(o.val[2].value, o.val[4], o.val[7].value, o.val[9]))

(* Parser.parse_function *)
parse_function(toks, p) ==
    function_node(statements(toks, p,
        <<Expect(KEYWORD, "func"), Expect(IDENTIFIER, None), Expect(SYMBOL, "("),
          Parameters, Expect(SYMBOL, ")"), Expect(SYMBOL, "->"),
          Expect(IDENTIFIER, None), Expect(SYMBOL, "{"), Body, Expect(SYMBOL, "}")>>, <<>>))

event_handler_node(o) ==
    IF o.err # "" THEN o
    ELSE Outcome("", o.pos, EventHandler(o.val[2].value, o.val[4], o.val[7]))

(* Parser.parse_event_handler *)
parse_event_handler(toks, p) ==
    event_handler_node(statements(toks, p,
        <<Expect(KEYWORD, "on"), Expect(IDENTIFIER, None), Expect(SYMBOL, "("),
          Parameters, Expect(SYMBOL, ")"), Expect(SYMBOL, "{"), Body,
          Expect(SYMBOL, "}")>>, <<>>))

(* the member loop of parse_actor and parse_supervisor: a func or on    *)
(* member is appended, any other token is consumed and dropped          *)
RECURSIVE collect_members(_, _, _)
collect_members_next(toks, f, body) ==
    IF f.err # "" THEN f ELSE collect_members(toks, f.pos, Append(body, f.val))

collect_members(toks, p, body) ==
    IF p >= Len(toks) THEN Outcome("IndexError", p, None)
    ELSE IF toks[p + 1].value = "}" THEN Outcome("", p, body)
    ELSE IF toks[p + 1].value = "func"
         THEN collect_members_next(toks, parse_function(toks, p), body)
    ELSE IF toks[p + 1].value = "on"
         THEN collect_members_next(toks, parse_event_handler(toks, p), body)
    ELSE collect_members(toks, p + 1, body)

(* the body and closing brace of parse_actor / parse_supervisor, after  *)
(* the header statements h                                              *)
declaration_close(toks, name, b, kind) ==
    IF b.err # "" THEN b
    ELSE IF consume(toks, b.pos, SYMBOL, "}").err # ""
         THEN consume(toks, b.pos, SYMBOL, "}")
    ELSE Outcome("", b.pos + 1,
                 IF kind = "actor" THEN Actor(name, b.val) ELSE Supervisor(name, b.val))

declaration_body(toks, h, kind) ==
    IF h.err # "" THEN h
    ELSE declaration_close(toks, h.val[2].value, collect_members(toks, h.pos, <<>>), kind)

(* Parser.parse_actor *)
parse_actor(toks, p) ==
    declaration_body(toks, statements(toks, p,
        <<Expect(KEYWORD, "actor"), Expect(IDENTIFIER, None), Expect(SYMBOL, "{")>>, <<>>),
        "actor")

(* Parser.parse_supervisor *)
parse_supervisor(toks, p) ==
    declaration_body(toks, statements(toks, p,
        <<Expect(KEYWORD, "supervisor"), Expect(IDENTIFIER, None), Expect(SYMBOL, "{")>>, <<>>),
        "supervisor")

let_node(o) ==
    IF o.err # "" THEN o
    ELSE Outcome("", o.pos, [stmt |-> "let", var_name |-> o.val[2].value,
                             expr |-> o.val[4].value])

(* Parser.parse_let *)
parse_let(toks, p) ==
    let_node(statements(toks, p,
        <<Expect(KEYWORD, "let"), Expect(IDENTIFIER, None), Expect(SYMBOL, "="),
          Expect(None, None), Expect(SYMBOL, ";")>>, <<>>))

send_node(o) ==
    IF o.err # "" THEN o
    ELSE Outcome("", o.pos, [stmt |-> "send", supervisor |-> o.val[1].value,
                             method |-> o.val[3].value, param |-> o.val[8].value,
                             call |-> o.val[10].value, method_call |-> o.val[12].value])

(* Parser.parse_supervisor_send *)
parse_supervisor_send(toks, p) ==
    send_node(statements(toks, p,
        <<Expect(IDENTIFIER, None), Expect(SYMBOL, "."), Expect(IDENTIFIER, None),
          Expect(SYMBOL, "("), Expect(KEYWORD, "message"), Expect(SYMBOL, ":"),
          Expect(SYMBOL, "{"), Expect(IDENTIFIER, None), Expect(IDENTIFIER, "in"),
          Expect(IDENTIFIER, None), Expect(SYMBOL, "."), Expect(IDENTIFIER, None),
          Expect(SYMBOL, "("), Expect(SYMBOL, ")"), Expect(SYMBOL, "}"),
          Expect(SYMBOL, ")"), Expect(SYMBOL, ";")>>, <<>>))

(* the statement loop of parse_main *)
RECURSIVE collect_statements(_, _, _)
collect_statements_next(toks, f, body) ==
    IF f.err # "" THEN f ELSE collect_statements(toks, f.pos, Append(body, f.val))

collect_statements(toks, p, body) ==
    IF p >= Len(toks) THEN Outcome("IndexError", p, None)
    ELSE IF toks[p + 1].value = "}" THEN Outcome("", p, body)
    ELSE IF toks[p + 1].value = "let"
         THEN collect_statements_next(toks, parse_let(toks, p), body)
    ELSE IF toks[p + 1].type = IDENTIFIER /\ toks[p + 1].value = "supervisor"
         THEN collect_statements_next(toks, parse_supervisor_send(toks, p), body)
    ELSE collect_statements(toks, p + 1, Append(body, toks[p + 1]))

main_close(toks, b) ==
    IF b.err # "" THEN b
    ELSE IF consume(toks, b.pos, SYMBOL, "}").err # ""
         THEN consume(toks, b.pos, SYMBOL, "}")
    ELSE Outcome("", b.pos + 1, Main(b.val))

main_body(toks, h) ==
    IF h.err # "" THEN h
    ELSE main_close(toks, collect_statements(toks, h.pos, <<>>))

(* Parser.parse_main *)
parse_main(toks, p) ==
    main_body(toks, statements(toks, p,
        <<Expect(KEYWORD, "func"), Expect(IDENTIFIER, None), Expect(SYMBOL, "("),
          Expect(SYMBOL, ")"), Expect(SYMBOL, "->"), Expect(IDENTIFIER, None),
          Expect(SYMBOL, "{")>>, <<>>))

(* Parser.parse_declaration that takes the leading token before it      *)
(* rejects it                                                           *)
parse_declarationEager(toks, p) ==
    IF p >= Len(toks) THEN Outcome("IndexError", p, None)
    ELSE IF toks[p + 1].type = KEYWORD /\ toks[p + 1].value = "actor"
         THEN parse_actor(toks, p)
    ELSE IF toks[p + 1].type = KEYWORD /\ toks[p + 1].value = "supervisor"
         THEN parse_supervisor(toks, p)
    ELSE IF toks[p + 1].type = KEYWORD /\ toks[p + 1].value = "func"
         THEN parse_function(toks, p)
    ELSE IF toks[p + 1].type = KEYWORD /\ toks[p + 1].value = "main"
         THEN parse_main(toks, p)
    ELSE Outcome("UnexpectedToken", p + 1, None)

(* Parser.parse_declaration *)
parse_declaration(toks, p) ==
    IF p >= Len(toks) THEN Outcome("IndexError", p, None)
    ELSE IF toks[p + 1].type = KEYWORD /\ toks[p + 1].value = "actor"
         THEN parse_actor(toks, p)
    ELSE IF toks[p + 1].type = KEYWORD /\ toks[p + 1].value = "supervisor"
         THEN parse_supervisor(toks, p)
    ELSE IF toks[p + 1].type = KEYWORD /\ toks[p + 1].value = "func"
         THEN parse_function(toks, p)
    ELSE IF toks[p + 1].type = KEYWORD /\ toks[p + 1].value = "main"
         THEN parse_main(toks, p)
    ELSE Outcome("UnexpectedToken", p, None)

(* Parser.parse *)
RECURSIVE parse_loop(_, _, _)
parse_loop_next(toks, d, nodes) ==
    IF d.err # "" THEN d ELSE parse_loop(toks, d.pos, Append(nodes, d.val))

parse_loop(toks, p, nodes) ==
    IF p >= Len(toks) THEN Outcome("IndexError", p, None)
    ELSE IF toks[p + 1].type = EOF THEN Outcome("", p, nodes)
    ELSE parse_loop_next(toks, parse_declaration(toks, p), nodes)

parse(toks, p) == parse_loop(toks, p, <<>>)

(* ---- the Parser object and its methods as actions ---- *)

Call(name, expected_type, expected_value) ==
    [name |-> name, expected_type |-> expected_type, expected_value |-> expected_value]

ParserApply(c, o) ==
    /\ position' = o.pos
    /\ err' = o.err
    /\ result' = o.val
    /\ op' = c
    /\ UNCHANGED <<tokens>>
    /\ UNCHANGED lexVars

(* expectations of the kind the parser's own calls of consume pass *)
ExpectedTypes == {None, IDENTIFIER, SYMBOL}
ExpectedValues == {None, "("}

DoConsume ==
    \E expected_type \in ExpectedTypes, expected_value \in ExpectedValues :
        ParserApply(Call("consume", expected_type, expected_value),
                    consume(tokens, position, expected_type, expected_value))

DoParseParameters ==
    ParserApply(Call("parse_parameters", None, None), parse_parameters(tokens, position))

DoParseFunction ==
    ParserApply(Call("parse_function", None, None), parse_function(tokens, position))

DoParseEventHandler ==
    ParserApply(Call("parse_event_handler", None, None), parse_event_handler(tokens, position))

DoParseActor ==
    ParserApply(Call("parse_actor", None, None), parse_actor(tokens, position))

DoParseSupervisor ==
    ParserApply(Call("parse_supervisor", None, None), parse_supervisor(tokens, position))

DoParseDeclaration ==
    ParserApply(Call("parse_declaration", None, None), parse_declaration(tokens, position))

DoParse ==
    ParserApply(Call("parse", None, None), parse(tokens, position))

NextParser ==
    \/ DoConsume
    \/ DoParseParameters
    \/ DoParseFunction
    \/ DoParseEventHandler
    \/ DoParseActor
    \/ DoParseSupervisor
    \/ DoParseDeclaration
    \/ DoParse

(* ---- token lists handed to Parser.__init__ ---- *)

MaxBody == 3
MaxMembers == 2
MaxParams == 3
MaxDecls == 2

Tok(t, v) == Token(t, v, 1, 1)

EOFToken == Tok(EOF, "")
LBrace == Tok(SYMBOL, "{")
RBrace == Tok(SYMBOL, "}")
LParen == Tok(SYMBOL, "(")
RParen == Tok(SYMBOL, ")")
Arrow == Tok(SYMBOL, "->")
Semi == Tok(SYMBOL, ";")
Colon == Tok(SYMBOL, ":")
Comma == Tok(SYMBOL, ",")
Ident(v) == Tok(IDENTIFIER, v)
Kw(v) == Tok(KEYWORD, v)

FuncHeader == <<Kw("func"), Ident("f"), LParen, RParen, Arrow, Ident("Int"), LBrace>>
OnHeader == <<Kw("on"), Ident("e"), LParen, RParen, LBrace>>
ActorHeader == <<Kw("actor"), Ident("a"), LBrace>>
SupervisorHeader == <<Kw("supervisor"), Ident("b"), LBrace>>

RECURSIVE Flatten(_)
Flatten(ss) == IF ss = <<>> THEN <<>> ELSE Head(ss) \o Flatten(Tail(ss))

(* a func or on header, a body of braces and identifiers, end of input *)
BodyPieces == {<<LBrace>>, <<RBrace>>, <<Ident("x")>>}
BodyInputs ==
    {h \o Flatten(b) \o <<EOFToken>> :
        h \in {FuncHeader, OnHeader}, b \in SeqsUpTo(BodyPieces, MaxBody)}

(* an actor or supervisor header, members and member fragments, and the *)
(* closing brace or not                                                 *)
MemberPieces == {<<LBrace>>, <<RBrace>>, <<Ident("x"), Semi>>, FuncHeader, OnHeader}
MemberInputs ==
    {h[1] \o Flatten(b) \o h[2] :
        h \in {ActorHeader, SupervisorHeader} \X {<<EOFToken>>, <<RBrace, EOFToken>>},
        b \in SeqsUpTo(MemberPieces, MaxMembers)}

(* "(", a parameter list, and ")" or not *)
ParamPieces == {<<Ident("a")>>, <<Ident("a"), Colon, Ident("Int")>>,
                <<Ident("b"), Colon, Ident("Int")>>, <<Comma>>, <<Colon>>}
ParamInputs ==
    {<<LParen>> \o Flatten(b) \o t :
        t \in {<<EOFToken>>, <<RParen, EOFToken>>},
        b \in SeqsUpTo(ParamPieces, MaxParams)}

(* sequences of whole declarations and stray tokens *)
DeclPieces == {ActorHeader \o <<RBrace>>, SupervisorHeader \o <<RBrace>>,
               FuncHeader \o <<RBrace>>, <<Kw("let")>>, <<Kw("on")>>, <<Kw("main")>>,
               <<Ident("x")>>, <<RBrace>>, <<Tok(NUMBER, "1")>>, <<Tok(STRING_, "s")>>}
DeclInputs ==
    {Flatten(b) \o <<EOFToken>> : b \in SeqsUpTo(DeclPieces, MaxDecls)}

LexerIdle ==
    /\ source = <<>>
    /\ lexPosition = 0
    /\ line = 1
    /\ column = 1
    /\ lexOp = "init"
    /\ lexErr = ""
    /\ lexRet = RetNone

(* Parser.__init__ *)
InitParser(inputs) ==
    /\ tokens \in inputs
    /\ position = 0
    /\ op = Call("init", None, None)
    /\ err = ""
    /\ result = None
    /\ LexerIdle

InitBodies == InitParser(BodyInputs)
InitMembers == InitParser(MemberInputs)
InitParams == InitParser(ParamInputs)
InitDecls == InitParser(DeclInputs)

SpecBodies == InitBodies /\ [][NextParser]_vars
SpecMembers == InitMembers /\ [][NextParser]_vars
SpecParams == InitParams /\ [][NextParser]_vars
SpecDecls == InitDecls /\ [][NextParser]_vars

(* ---------------- parser properties ---------------- *)

(* toks carries the tokens of hdr from 0-based position p on *)
HasPrefix(toks, p, hdr) ==
    /\ p + Len(hdr) <= Len(toks)
    /\ SubSeq(toks, p + 1, p + Len(hdr)) = hdr

(* 1-based index of the "}" that closes the block open at depth d when *)
(* scanning from index i; 0 when the block is never closed             *)
RECURSIVE MatchingBrace(_, _, _)
MatchingBrace(toks, i, d) ==
    IF i > Len(toks) THEN 0
    ELSE IF toks[i].value = "{" THEN MatchingBrace(toks, i + 1, d + 1)
    ELSE IF toks[i].value = "}"
         THEN IF d = 1 THEN i ELSE MatchingBrace(toks, i + 1, d - 1)
    ELSE MatchingBrace(toks, i + 1, d)

BodyParser(hdr) == IF hdr = FuncHeader THEN "parse_function" ELSE "parse_event_handler"

(* C1: parse_function and parse_event_handler on a body that is closed  *)
(* by a matching "}" succeed, capture exactly the tokens between the    *)
(* opening "{" and its matching "}", and leave the cursor after it.     *)
C1_BalancedBodyCapture ==
    [][\A hdr \in {FuncHeader, OnHeader} :
          LET m == MatchingBrace(tokens, position + Len(hdr) + 1, 1) IN
          (op'.name = BodyParser(hdr) /\ HasPrefix(tokens, position, hdr) /\ m # 0) =>
              /\ err' = ""
              /\ result'.body = SubSeq(tokens, position + Len(hdr) + 1, m - 1)
              /\ position' = m]_vars

(* C2: parse() on a function whose body is still open at end of input  *)
(* fails with UnexpectedEndOfInput, the cursor still inside the list.  *)
C2_UnexpectedEndOfInput ==
    [][(/\ op'.name = "parse"
        /\ HasPrefix(tokens, position, FuncHeader)
        /\ MatchingBrace(tokens, position + Len(FuncHeader) + 1, 1) = 0
        /\ \A i \in (position + 1)..Len(tokens) : tokens[i].value # "}") =>
           (err' = "UnexpectedEndOfInput" /\ position' < Len(tokens))]_vars

DeclParser(hdr) == IF hdr = ActorHeader THEN "parse_actor" ELSE "parse_supervisor"

RECURSIVE MemberTokens(_)
MemberTokens(members) ==
    IF members = <<>> THEN <<>>
    ELSE Head(members).tokens \o MemberTokens(Tail(members))

(* C3: parse_actor and parse_supervisor on a closed body made only of  *)
(* members that start with neither func nor on (each ended by ";" or   *)
(* by its block) keep every body token in OpaqueMember entries and end *)
(* at the "}" that matches the declaration's "{".                      *)
C3_OpaqueMembersRetained ==
    [][\A hdr \in {ActorHeader, SupervisorHeader} :
          LET first == position + Len(hdr) + 1
              m == MatchingBrace(tokens, first, 1) IN
          (/\ op'.name = DeclParser(hdr)
           /\ HasPrefix(tokens, position, hdr)
           /\ m > first
           /\ \A i \in first..(m - 1) : tokens[i].value \notin {"func", "on"}
           /\ tokens[m - 1].value \in {";", "}"}) =>
              /\ err' = ""
              /\ position' = m
              /\ Len(result'.body) >= 1
              /\ \A i \in 1..Len(result'.body) : result'.body[i].node = "OpaqueMember"
              /\ MemberTokens(result'.body) = SubSeq(tokens, first, m - 1)]_vars

Param(name, type) == [name |-> name, type |-> type]

(* the name and the type an entry of the returned list carries: those of *)
(* a Param, or the text of a bare token standing for an untyped name     *)
EntryName(x) == IF "name" \in DOMAIN x THEN x.name ELSE x.value
EntryType(x) == IF "name" \in DOMAIN x THEN x.type ELSE None

(* the parameter list of the grammar (parameters separated by commas,   *)
(* each an identifier with an optional colon and type identifier), read *)
(* from 1-based index i up to its closing parenthesis                   *)
RECURSIVE GrammarParams(_, _, _, _)
GrammarParams(toks, i, params, needParam) ==
    IF i > Len(toks) THEN [ok |-> FALSE, params |-> <<>>, close |-> 0]
    ELSE IF toks[i].type = SYMBOL /\ toks[i].value = ")"
         THEN [ok |-> ~needParam, params |-> params, close |-> i]
    ELSE IF toks[i].type # IDENTIFIER THEN [ok |-> FALSE, params |-> <<>>, close |-> 0]
    ELSE LET typed == toks[i + 1].type = SYMBOL /\ toks[i + 1].value = ":"
             j == IF typed THEN i + 3 ELSE i + 1
             ps == Append(params, Param(toks[i].value,
                                        IF typed THEN toks[i + 2].value ELSE None)) IN
         IF typed /\ toks[i + 2].type # IDENTIFIER
         THEN [ok |-> FALSE, params |-> <<>>, close |-> 0]
         ELSE IF toks[j].type = SYMBOL /\ toks[j].value = ","
              THEN GrammarParams(toks, j + 1, ps, TRUE)
              ELSE IF toks[j].type = SYMBOL /\ toks[j].value = ")"
                   THEN [ok |-> TRUE, params |-> ps, close |-> j]
                   ELSE [ok |-> FALSE, params |-> <<>>, close |-> 0]

(* C4: parse_parameters on a well-formed parameter list returns one    *)
(* Param (name, optional type) per declared parameter, in order, and   *)
(* stops with the cursor on the closing ")".                           *)
C4_OneParamPerParameter ==
    [][LET g == GrammarParams(tokens, position + 1, <<>>, FALSE) IN
       (op'.name = "parse_parameters" /\ g.ok) =>
           /\ err' = ""
           /\ position' = g.close - 1
           /\ Len(result') = Len(g.params)
           /\ \A i \in 1..Len(result') :
                 /\ EntryName(result'[i]) = g.params[i].name
                 /\ EntryType(result'[i]) = g.params[i].type]_vars

(* C8: consume on a current token either returns it and moves the      *)
(* cursor by one, or, when an expected type or text was passed and the *)
(* token differs from it, fails with UnexpectedToken and leaves the    *)
(* cursor where it was; without expectation it always moves by one.    *)
C8_Consume ==
    [][(op'.name = "consume" /\ position < Len(tokens)) =>
          LET cur == tokens[position + 1]
              mismatch == \/ op'.expected_type # None /\ cur.type # op'.expected_type
                          \/ op'.expected_value # None /\ cur.value # op'.expected_value IN
          IF mismatch
          THEN err' = "UnexpectedToken" /\ position' = position
          ELSE err' = "" /\ position' = position + 1 /\ result' = cur]_vars

C8_Witness ==
    /\ op.name = "consume"
    /\ op.expected_type = SYMBOL
    /\ err = "UnexpectedToken"
    /\ position = 1
    /\ tokens[position + 1].type = IDENTIFIER

KeywordOf(node) ==
    IF node.node = "Actor" THEN "actor"
    ELSE IF node.node = "Supervisor" THEN "supervisor"
    ELSE IF node.node = "Function" THEN "func"
    ELSE None

(* least 1-based index from i on where the declaration of node starts *)
RECURSIVE FindDecl(_, _, _)
FindDecl(toks, i, node) ==
    IF i >= Len(toks) THEN 0
    ELSE IF /\ toks[i].type = KEYWORD
            /\ toks[i].value = KeywordOf(node)
            /\ toks[i + 1].value = node.name
         THEN i
    ELSE FindDecl(toks, i + 1, node)

RECURSIVE InSourceOrder(_, _, _)
InSourceOrder(nodes, toks, i) ==
    \/ nodes = <<>>
    \/ LET j == FindDecl(toks, i, Head(nodes)) IN
       j # 0 /\ InSourceOrder(Tail(nodes), toks, j + 1)

IsDeclKeyword(tok) == tok.type = KEYWORD /\ tok.value \in {"actor", "supervisor", "func"}

(* C9: parse_declaration yields an Actor, Supervisor or Function node   *)
(* only on the keyword actor, supervisor or func, and fails with        *)
(* UnexpectedToken without moving the cursor on any other token; parse  *)
(* stops on EndOfInput with the nodes in source order.                  *)
C9_TopLevelDispatch ==
    [][/\ (op'.name = "parse_declaration" /\ position < Len(tokens)) =>
            LET cur == tokens[position + 1] IN
            /\ err' = "" => /\ cur.type = KEYWORD
                            /\ KeywordOf(result') # None
                            /\ cur.value = KeywordOf(result')
            /\ ~IsDeclKeyword(cur) => (err' = "UnexpectedToken" /\ position' = position)
       /\ (op'.name = "parse" /\ err' = "") =>
            /\ tokens[position' + 1].type = EOF
            /\ InSourceOrder(result', tokens, position + 1)]_vars

C9_Witness ==
    /\ op.name = "parse"
    /\ err = ""
    /\ Len(result) = 2
    /\ result[1].node = "Supervisor"
    /\ result[2].node = "Function"
    /\ tokens[position + 1].type = EOF

====
